---- MODULE Spec2Model ----
(***************************************************************************)
(* Financial sentiment dashboard backend: the news cache of               *)
(* news_fetcher.py, the lazily loaded classifier of sentiment_analyzer.py  *)
(* and the /news/{ticker} route of main.py, as state machines.             *)
(*                                                                         *)
(* Strings that the code takes apart (tickers, cache keys) are sequences   *)
(* of one-character strings.  Scores are in hundredths (0.4 is 40).        *)
(* Time is in seconds.  Threads interleave at the granularity of one       *)
(* access to shared state (a dict operation, a lock operation, a call out  *)
(* of the process).                                                        *)
(***************************************************************************)
EXTENDS Integers, Sequences, FiniteSets, TLC

\* ------------------------------------------------------------------ bounds
NumThreads == 2
MaxCalls == 2

Threads == 1..NumThreads

\* ------------------------------------------------------- configuration
CACHE_TTL == 3600
MAX_CACHE_SIZE == 100
MIN_RELEVANCE_SCORE == 40
MAX_TEXT_LENGTH == 512

AAPL == <<"A", "A", "P", "L">>
ALLOWED_TICKERS == {AAPL}

\* ------------------------------------------------------------- strings
UpperLetters == {"A", "P", "L", "M", "S", "F", "T"}

UpperOf == ("a" :> "A") @@ ("p" :> "P") @@ ("l" :> "L")

\* str.upper(), character by character
Upper(s) == [i \in 1..Len(s) |-> IF s[i] \in DOMAIN UpperOf THEN UpperOf[s[i]] ELSE s[i]]

\* re.match(r'^[A-Z]{1,5}$', s): $ matches at the end of the string and also
\* just before a newline that ends it
MatchesTickerFormat(s) ==
    LET body == IF s # <<>> /\ s[Len(s)] = "\n" THEN SubSeq(s, 1, Len(s) - 1) ELSE s
    IN /\ Len(body) \in 1..5
       /\ \A i \in 1..Len(body) : body[i] \in UpperLetters

\* the tickers the threads pass in: one that is allowed, in lower case, and
\* one that is not
TickerInputs == {<<"a", "a", "p", "l">>, <<"M", "S", "F", "T">>}

\* the allow-list is not consulted
validate_ticker_format_only(t) ==
    IF t = <<>> THEN "empty"
    ELSE IF ~MatchesTickerFormat(Upper(t)) THEN "format"
    ELSE "ok"

\* the ticker is matched as given, not uppercased
validate_ticker_case_sensitive(t) ==
    IF t = <<>> THEN "empty"
    ELSE IF ~MatchesTickerFormat(t) THEN "format"
    ELSE IF t \notin ALLOWED_TICKERS THEN "not_allowed"
    ELSE "ok"

\* validate_ticker: "ok", or the rule that raised ValueError
validate_ticker(t) ==
    IF t = <<>> THEN "empty"
    ELSE IF ~MatchesTickerFormat(Upper(t)) THEN "format"
    ELSE IF Upper(t) \notin ALLOWED_TICKERS THEN "not_allowed"
    ELSE "ok"

_get_cache_key(t) == <<"n", "e", "w", "s", "_">> \o Upper(t)

\* ------------------------------------------------------------- outcomes
Returned(items) == [exc |-> "none", msg |-> "", items |-> items]
Raised(exc, msg) == [exc |-> exc, msg |-> msg, items |-> <<>>]
NoResult == [exc |-> "pending", msg |-> "", items |-> <<>>]

\* --------------------------------------------------------------- feeds
Get(rec, field, default) == IF field \in DOMAIN rec THEN rec[field] ELSE default

\* a time_published string that strptime cannot parse (ValueError)
BadStamp == -1

\* a time_published that is not a string: strptime raises TypeError
NullStamp == -2

\* a score that float() cannot read (ValueError, or TypeError for null)
NotANumber == -999

\* a JSON value that is not an object has no get method
NotAnObject(kind) == [json |-> kind]
IsObject(value) == "json" \notin DOMAIN value

TS(t, rel, score) == [ticker |-> t, relevance_score |-> rel, ticker_sentiment_score |-> score,
                      ticker_sentiment_label |-> "Neutral"]

EntryA1 == [title |-> "a1", source |-> "Reuters", time_published |-> 10,
            ticker_sentiment |-> <<TS(AAPL, 45, 2)>>]
EntryA2 == [title |-> "a2", source |-> "CNBC", time_published |-> 20,
            ticker_sentiment |-> <<TS(<<"M", "S", "F", "T">>, 90, 5), TS(AAPL, 95, 48)>>]
EntryLow == [title |-> "low", source |-> "Blog", time_published |-> 30,
             ticker_sentiment |-> <<TS(AAPL, 10, 0)>>]
EntryB1 == [title |-> "b1", time_published |-> 15,
            ticker_sentiment |-> <<TS(AAPL, 40, -22)>>]
\* about another ticker only
EntryOther == [title |-> "other", source |-> "Wire", time_published |-> 25,
               ticker_sentiment |-> <<TS(<<"M", "S", "F", "T">>, 90, 5)>>]
\* well-formed but for the publish timestamp, which does not parse
EntryNoStamp == [title |-> "nostamp", source |-> "Wire", time_published |-> BadStamp,
                 ticker_sentiment |-> <<TS(AAPL, 88, 7)>>]
\* "time_published": null
EntryNullStamp == [title |-> "nullstamp", source |-> "Wire", time_published |-> NullStamp,
                   ticker_sentiment |-> <<TS(AAPL, 88, 7)>>]
\* "relevance_score": "n/a"
EntryBadRelevance == [title |-> "badrel", source |-> "Wire", time_published |-> 12,
                      ticker_sentiment |-> <<TS(AAPL, NotANumber, 7)>>]
\* a feed element that is a string
EntryNotObject == NotAnObject("string")
\* a ticker_sentiment list whose first element is a string
EntryBadSub == [title |-> "badsub", source |-> "Wire", time_published |-> 18,
                ticker_sentiment |-> <<NotAnObject("string"), TS(AAPL, 90, 5)>>]
\* "relevance_score": "1.5", "ticker_sentiment_score": "-2.5": numbers, but
\* outside the ranges of NewsItem
EntryHot == [title |-> "hot", source |-> "Wire", time_published |-> 22,
             ticker_sentiment |-> <<TS(AAPL, 150, -250)>>]

FeedEmpty == <<>>
FeedA == <<EntryA1, EntryLow, EntryA2>>
FeedB == <<EntryB1>>
Feeds == {FeedEmpty, FeedA, FeedB}

\* parse_timestamp: the current time stands in for a string that strptime
\* cannot parse (only ValueError is caught there)
parse_timestamp(stamp, clock) == IF stamp = BadStamp THEN clock ELSE stamp

\* how the body of the loop over the feed ends for one entry
Skipped == [kind |-> "skip"]
Aborted(exc) == [kind |-> "raise", exc |-> exc]
Kept(news_item) == [kind |-> "item", item |-> news_item]

\* the first sub-record of the entry's ticker_sentiment whose ticker is the
\* uppercased request ticker; <<>> when there is none; ts.get on an element
\* that is not an object raises AttributeError
RECURSIVE FindTickerSentiment(_, _)
FindTickerSentiment(tss, t) ==
    IF tss = <<>> THEN [exc |-> "none", found |-> <<>>]
    ELSE IF ~IsObject(Head(tss)) THEN [exc |-> "AttributeError", found |-> <<>>]
    ELSE IF Get(Head(tss), "ticker", <<>>) = Upper(t)
         THEN [exc |-> "none", found |-> <<Head(tss)>>]
    ELSE FindTickerSentiment(Tail(tss), t)

\* an entry whose relevance is exactly the threshold is dropped too
BelowOrAtThreshold(relevance, min_relevance) == relevance <= min_relevance

\* line 178: if relevance < min_relevance: continue
BelowThreshold(relevance, min_relevance) == relevance < min_relevance

MakeNewsItem(item, ts, t, clock) ==
    [title |-> Get(item, "title", ""),
     source |-> Get(item, "source", "Unknown"),
     time_published |-> parse_timestamp(Get(item, "time_published", BadStamp), clock),
     ticker |-> Upper(t),
     relevance_score |-> Get(ts, "relevance_score", 0),
     sentiment_score |-> Get(ts, "ticker_sentiment_score", 0),
     sentiment_label |-> Get(ts, "ticker_sentiment_label", "Neutral")]

\* the body of the loop, lines 164-198: the inner except catches KeyError,
\* ValueError and TypeError and goes on to the next entry; anything else
\* leaves the loop
ParseEntry(item, t, min_relevance, clock) ==
    IF ~IsObject(item) THEN Aborted("AttributeError")
    ELSE LET search == FindTickerSentiment(Get(item, "ticker_sentiment", <<>>), t)
         IN IF search.exc # "none" THEN Aborted(search.exc)
            ELSE IF search.found = <<>> THEN Skipped
            ELSE LET ts == search.found[1]
                 IN IF Get(ts, "relevance_score", 0) = NotANumber THEN Skipped
                    ELSE IF BelowThreshold(Get(ts, "relevance_score", 0), min_relevance)
                         THEN Skipped
                    ELSE IF Get(item, "time_published", BadStamp) = NullStamp THEN Skipped
                    ELSE IF Get(ts, "ticker_sentiment_score", 0) = NotANumber THEN Skipped
                    ELSE Kept(MakeNewsItem(item, ts, t, clock))

\* the loop over the feed: the entries about the ticker with enough
\* relevance, or the exception that ended the loop
RECURSIVE CollectItems(_, _, _, _)
CollectItems(feed, t, min_relevance, clock) ==
    IF feed = <<>> THEN Returned(<<>>)
    ELSE LET parsed == ParseEntry(Head(feed), t, min_relevance, clock)
         IN IF parsed.kind = "raise" THEN Raised(parsed.exc, "feed entry")
            ELSE LET rest == CollectItems(Tail(feed), t, min_relevance, clock)
                 IN IF rest.exc # "none" THEN rest
                    ELSE IF parsed.kind = "skip" THEN rest
                    ELSE Returned(<<parsed.item>> \o rest.items)

\* list.sort(key=time_published, reverse=True): stable, most recent first
RECURSIVE InsertDesc(_, _)
InsertDesc(sorted, x) ==
    IF sorted = <<>> THEN <<x>>
    ELSE IF Head(sorted).time_published >= x.time_published
         THEN <<Head(sorted)>> \o InsertDesc(Tail(sorted), x)
         ELSE <<x>> \o sorted

\* the list is left in the order of the feed
Unsorted(items) == items

RECURSIVE SortByTimeDesc(_)
SortByTimeDesc(items) ==
    IF items = <<>> THEN <<>>
    ELSE InsertDesc(SortByTimeDesc(SubSeq(items, 1, Len(items) - 1)), items[Len(items)])

\* lines 163-201: the loop, then the sort; an exception out of the loop
\* leaves the function through the outer except
ProcessFeed(feed, t, min_relevance, clock) ==
    LET collected == CollectItems(feed, t, min_relevance, clock)
    IN IF collected.exc # "none" THEN collected
       ELSE Returned(SortByTimeDesc(collected.items))

\* ----------------------------------------------------- provider responses
HttpResponse(status, err, note, feed) ==
    [transport |-> "ok", status_code |-> status, body |-> "object",
     error_message |-> err, note |-> note, feed |-> feed]

\* a response whose body is not a JSON object: text that is not JSON
\* ("not_json"), or a JSON array ("list")
OtherBody(status, kind) ==
    [transport |-> "ok", status_code |-> status, body |-> kind,
     error_message |-> FALSE, note |-> FALSE, feed |-> <<>>]

Responses ==
    {HttpResponse(200, FALSE, FALSE, f) : f \in Feeds}
    \cup {HttpResponse(200, FALSE, TRUE, FeedA)}
    \cup {[transport |-> "Timeout"]}

\* the responses that make the fetch fail: no connection, a status other
\* than 200 with every body, the error marker with and without the
\* rate-limit marker and a feed, the rate-limit marker alone, bodies that
\* are not JSON objects, and the status 201, which is not 200 but is a 2xx
FailureResponses ==
    {[transport |-> "ConnectionError"]}
    \cup {HttpResponse(500, e, n, f) : e \in BOOLEAN, n \in BOOLEAN, f \in {FeedEmpty, FeedA}}
    \cup {HttpResponse(201, e, n, FeedA) : e \in BOOLEAN, n \in BOOLEAN}
    \cup {HttpResponse(200, TRUE, n, f) : n \in BOOLEAN, f \in {FeedEmpty, FeedA}}
    \cup {HttpResponse(200, FALSE, TRUE, FeedEmpty)}
    \cup {OtherBody(200, "not_json"), OtherBody(200, "list"), OtherBody(500, "not_json")}

\* the rate-limit marker is not looked for
ResponseErrorIgnoresNote(resp) ==
    IF resp.transport = "Timeout" THEN [exc |-> "TimeoutError", msg |-> "timed out"]
    ELSE IF resp.transport = "ConnectionError" THEN [exc |-> "ConnectionError", msg |-> "connect"]
    ELSE IF resp.status_code # 200 THEN [exc |-> "ValueError", msg |-> "API Error: HTTP"]
    ELSE IF resp.body = "not_json" THEN [exc |-> "JSONDecodeError", msg |-> "Expecting value"]
    ELSE IF resp.error_message THEN [exc |-> "ValueError", msg |-> "API Error"]
    ELSE IF resp.body = "list" THEN [exc |-> "AttributeError", msg |-> "get"]
    ELSE [exc |-> "none", msg |-> ""]

\* the rate-limit marker is looked for before the error marker
ResponseErrorNoteFirst(resp) ==
    IF resp.transport = "Timeout" THEN [exc |-> "TimeoutError", msg |-> "timed out"]
    ELSE IF resp.transport = "ConnectionError" THEN [exc |-> "ConnectionError", msg |-> "connect"]
    ELSE IF resp.status_code # 200 THEN [exc |-> "ValueError", msg |-> "API Error: HTTP"]
    ELSE IF resp.body = "not_json" THEN [exc |-> "JSONDecodeError", msg |-> "Expecting value"]
    ELSE IF resp.note THEN [exc |-> "ValueError", msg |-> "Rate limit exceeded"]
    ELSE IF resp.error_message THEN [exc |-> "ValueError", msg |-> "API Error"]
    ELSE IF resp.body = "list" THEN [exc |-> "AttributeError", msg |-> "get"]
    ELSE [exc |-> "none", msg |-> ""]

\* what the body of the try block makes of a response: the exception it
\* raises and its message, or "none"
ResponseError(resp) ==
    IF resp.transport = "Timeout" THEN [exc |-> "TimeoutError", msg |-> "timed out"]
    ELSE IF resp.transport = "ConnectionError" THEN [exc |-> "ConnectionError", msg |-> "connect"]
    ELSE IF resp.status_code # 200 THEN [exc |-> "ValueError", msg |-> "API Error: HTTP"]
    ELSE IF resp.body = "not_json" THEN [exc |-> "JSONDecodeError", msg |-> "Expecting value"]
    ELSE IF resp.error_message THEN [exc |-> "ValueError", msg |-> "API Error"]
    ELSE IF resp.note THEN [exc |-> "ValueError", msg |-> "Rate limit exceeded"]
    ELSE IF resp.body = "list" THEN [exc |-> "AttributeError", msg |-> "get"]
    ELSE [exc |-> "none", msg |-> ""]

\* ------------------------------------------------------------ the state
VARIABLES
    cache,             \* _cache: cache key -> list of news items
    cache_timestamps,  \* _cache_timestamps: cache key -> time of the store
    now,               \* time.time()
    pc,                \* where each thread is in fetch_financial_news / _clear_cache
    ticker,            \* the ticker argument of the thread's current call
    min_relevance,     \* the min_relevance of the thread's current call
    news_items,        \* the local news_items of the thread's current call
    result,            \* what the thread's last finished call returned or raised
    providerCalls,     \* history: number of requests.get calls made so far
    started,           \* history: number of calls started
    cleared,           \* history: _clear_cache has been called
    cacheTag,          \* history: which provider call's items each _cache entry holds
    tsTag,             \* history: which provider call's store stamped each entry
    reqTag,            \* history: the number of the thread's own provider call
    seenTag,           \* history: the stamp's tag the thread read in _is_cache_valid
    lastPut,           \* history: the items of the latest write to _cache, per key
    model_pipeline,    \* _model_pipeline: None, or the handle initialize_model returned
    model_lock,        \* _model_lock: Unlocked, or the thread inside the with block
    phase,             \* "boot" before startup_event, "serving" after it, "direct" when
                       \* the modules are used without the application's startup
    mpc,               \* where each thread is in get_sentiment_pipeline
    mres,              \* what the thread's last get_sentiment_pipeline call gave
    mstarted,          \* history: number of get_sentiment_pipeline calls started
    constructions,     \* history: number of handles initialize_model has returned
    classifyRequested, \* history: a classification has been asked for
    waitedOnFailure,   \* history: the thread was waiting for the lock when the
                       \* holder's initialize_model raised, in its current call
    npc,               \* where each thread is in get_news
    todo,              \* get_news: the news items the loop has still to analyze
    analyzed_items,    \* get_news: the local analyzed_items
    response,          \* what the thread's last get_news call answered
    fromCache,         \* history: the call's fetch returned the list held by _cache
    classifiedOnHit,   \* history: analyze_sentiment was called for an item that
                       \* the call's fetch had taken from _cache
    fetched,           \* history: what fetch_financial_news returned or raised to
                       \* the thread's current or last get_news call
    outcomes,          \* history: how analyze_sentiment ended for each item of that
                       \* list, in order
    apc,               \* where each thread is in analyze_sentiment /
                       \* batch_analyze_sentiment
    acall,             \* the thread's current or last call: which of the two, the
                       \* texts it was given and the texts it hands to the pipeline
    ares,              \* what the thread's last finished call returned or raised
    submitted,         \* history: every text the pipeline has been invoked with
    feed_in,           \* the feed the provider answers with, where one fetch is
                       \* followed from its arguments to its result
    ticker_in,         \* that fetch's ticker argument
    min_in,            \* that fetch's min_relevance argument
    validated,         \* what validate_ticker(ticker_in) returned or raised, where
                       \* validate_ticker is followed on its own
    raw_in,            \* the pipeline's answer for one text, where one prediction
                       \* is followed to the result delivered
    analysis,          \* what analyze_sentiment builds from raw_in
    delivered,         \* the SentimentResult the /analyze route builds from that
    label_again,       \* normalize_label applied to the label already normalized
    items_in,          \* the analyzed items get_news answers with, where
                       \* get_sentiment_stats is followed on its own
    stats_out          \* the SentimentStats built from items_in

storeVars == <<cache, cache_timestamps, cacheTag, tsTag, lastPut>>
localVars == <<ticker, min_relevance, news_items, reqTag, seenTag>>
countVars == <<providerCalls, started, cleared>>
cacheVars == <<storeVars, localVars, countVars, now, pc, result>>

modelVars == <<model_pipeline, model_lock, phase, mpc, mres, mstarted, constructions,
               classifyRequested, waitedOnFailure>>

newsVars == <<npc, todo, analyzed_items, response, fromCache, classifiedOnHit, fetched,
              outcomes>>

analyzeVars == <<apc, acall, ares, submitted>>

\* what the cache, the classifier handle and the route leave alone
inputVars == <<feed_in, ticker_in, min_in, validated>>

\* the values followed through the pure functions
pureVars == <<raw_in, analysis, delivered, label_again, items_in, stats_out>>

otherVars == <<analyzeVars, inputVars, pureVars>>

vars == <<cacheVars, modelVars, newsVars, otherVars>>

Empty == [k \in {} |-> 0]

InitCache ==
    /\ cache = Empty
    /\ cache_timestamps = Empty
    /\ now = 0
    /\ pc = [p \in Threads |-> "idle"]
    /\ ticker = [p \in Threads |-> <<>>]
    /\ min_relevance = [p \in Threads |-> MIN_RELEVANCE_SCORE]
    /\ news_items = [p \in Threads |-> <<>>]
    /\ result = [p \in Threads |-> NoResult]
    /\ providerCalls = 0
    /\ started = 0
    /\ cleared = FALSE
    /\ cacheTag = Empty
    /\ tsTag = Empty
    /\ reqTag = [p \in Threads |-> 0]
    /\ seenTag = [p \in Threads |-> 0]
    /\ lastPut = Empty

None == [set |-> FALSE, id |-> 0]
Handle(n) == [set |-> TRUE, id |-> n]
Unlocked == [held |-> FALSE, by |-> 0]
LockedBy(p) == [held |-> TRUE, by |-> p]

GotHandle(h) == [exc |-> "none", handle |-> h]
InitFailed == [exc |-> "RuntimeError", handle |-> None]
NoHandle == [exc |-> "pending", handle |-> None]

InitModel ==
    /\ model_pipeline = None
    /\ model_lock = Unlocked
    /\ phase \in {"boot", "direct"}
    /\ mpc = [p \in Threads |-> "idle"]
    /\ mres = [p \in Threads |-> NoHandle]
    /\ mstarted = 0
    /\ constructions = 0
    /\ classifyRequested = FALSE
    /\ waitedOnFailure = [p \in Threads |-> FALSE]

NoResponse == [status_code |-> 0, items |-> <<>>, cache_hit |-> FALSE]

InitNews ==
    /\ npc = [p \in Threads |-> "idle"]
    /\ todo = [p \in Threads |-> <<>>]
    /\ analyzed_items = [p \in Threads |-> <<>>]
    /\ response = [p \in Threads |-> NoResponse]
    /\ fromCache = [p \in Threads |-> FALSE]
    /\ classifiedOnHit = FALSE
    /\ fetched = [p \in Threads |-> NoResult]
    /\ outcomes = [p \in Threads |-> <<>>]

NoCall == [op |-> "none", given |-> <<>>, texts |-> <<>>]

InitAnalyze ==
    /\ apc = [p \in Threads |-> "idle"]
    /\ acall = [p \in Threads |-> NoCall]
    /\ ares = [p \in Threads |-> NoResult]
    /\ submitted = {}

NotValidated == [exc |-> "pending", msg |-> "", value |-> FALSE]

\* no call is followed from its arguments
InitInputs ==
    /\ feed_in = <<>>
    /\ ticker_in = <<>>
    /\ min_in = MIN_RELEVANCE_SCORE
    /\ validated = NotValidated

InitState == InitCache /\ InitModel /\ InitNews /\ InitAnalyze

Pending == [pending |-> TRUE]

\* no prediction and no list of items is followed
InitPure ==
    /\ raw_in = Pending
    /\ analysis = Pending
    /\ delivered = Pending
    /\ label_again = Pending
    /\ items_in = <<>>
    /\ stats_out = Pending

Init == InitState /\ InitInputs /\ InitPure

\* the modules used on their own, as the test-suite does
InitDirect == Init /\ phase = "direct"

\* the application, about to run its startup handler
InitBoot == Init /\ phase = "boot"

\* ------------------------------------------------- the cache's operations
\* an entry expires one second early
IsFreshExpiresEarly(cache_time, clock) == clock - cache_time < CACHE_TTL - 1

\* an entry of age exactly CACHE_TTL is still served
IsFreshAtTTL(cache_time, clock) == clock - cache_time <= CACHE_TTL

\* _is_cache_valid, line 84
IsFresh(cache_time, clock) == clock - cache_time < CACHE_TTL

\* the first writer's items stay
CachePutIfAbsent(c, key, items) == [k \in DOMAIN c \cup {key} |-> IF k \in DOMAIN c THEN c[k] ELSE items]

\* _cache[cache_key] = news_items
CachePut(c, key, items) == [k \in DOMAIN c \cup {key} |-> IF k = key THEN items ELSE c[k]]

\* _cache_timestamps[cache_key] = time.time()
StampPut(ts, key, clock) == [k \in DOMAIN ts \cup {key} |-> IF k = key THEN clock ELSE ts[k]]

\* history only: the tag of an entry
TagPut(tags, key, tag) == [k \in DOMAIN tags \cup {key} |-> IF k = key THEN tag ELSE tags[k]]

\* the call returns or raises; its locals are gone
Finish(p, outcome) ==
    /\ pc' = [pc EXCEPT ![p] = "done"]
    /\ result' = [result EXCEPT ![p] = outcome]
    /\ ticker' = [ticker EXCEPT ![p] = <<>>]
    /\ min_relevance' = [min_relevance EXCEPT ![p] = MIN_RELEVANCE_SCORE]
    /\ news_items' = [news_items EXCEPT ![p] = <<>>]
    /\ reqTag' = [reqTag EXCEPT ![p] = 0]
    /\ seenTag' = [seenTag EXCEPT ![p] = 0]

\* fetch_financial_news is entered with a min_relevance: validate_ticker,
\* then the membership test of _is_cache_valid
CallFetchWith(p, t, m) ==
    /\ started < MaxCalls
    /\ started' = started + 1
    /\ IF validate_ticker(t) # "ok"
       THEN Finish(p, Raised("ValueError", validate_ticker(t)))
       ELSE /\ pc' = [pc EXCEPT ![p] = IF _get_cache_key(t) \in DOMAIN cache_timestamps
                                        THEN "valid_get" ELSE "request"]
            /\ ticker' = [ticker EXCEPT ![p] = t]
            /\ min_relevance' = [min_relevance EXCEPT ![p] = m]
            /\ result' = [result EXCEPT ![p] = NoResult]
            /\ UNCHANGED <<news_items, reqTag, seenTag>>
    /\ UNCHANGED <<storeVars, now, providerCalls, cleared>>

\* min_relevance left out: lines 118-119 take MIN_RELEVANCE_SCORE
CallFetch(p, t) == CallFetchWith(p, t, MIN_RELEVANCE_SCORE)

FetchStart(p, t) ==
    /\ pc[p] \in {"idle", "done"}
    /\ CallFetch(p, t)

\* _is_cache_valid, lines 81-84: the stamp is read, then the clock
ValidGet(p) ==
    /\ pc[p] = "valid_get"
    /\ LET key == _get_cache_key(ticker[p])
       IN IF key \notin DOMAIN cache_timestamps
          THEN Finish(p, Raised("KeyError", "cache_timestamps"))
          ELSE /\ pc' = [pc EXCEPT ![p] = IF IsFresh(cache_timestamps[key], now)
                                           THEN "hit_read" ELSE "request"]
               /\ seenTag' = [seenTag EXCEPT ![p] = tsTag[key]]
               /\ UNCHANGED <<result, ticker, min_relevance, news_items, reqTag>>
    /\ UNCHANGED <<storeVars, countVars, now>>

\* return _cache[cache_key]
HitRead(p) ==
    /\ pc[p] = "hit_read"
    /\ LET key == _get_cache_key(ticker[p])
       IN IF key \notin DOMAIN cache
          THEN Finish(p, Raised("KeyError", "cache"))
          ELSE Finish(p, Returned(cache[key]))
    /\ UNCHANGED <<storeVars, countVars, now>>

\* requests.get and the handling of its response, up to the sorted list
Request(p, resp) ==
    /\ pc[p] = "request"
    /\ providerCalls' = providerCalls + 1
    /\ LET err == ResponseError(resp)
       IN IF err.exc # "none"
          THEN Finish(p, Raised(err.exc, err.msg))
          ELSE IF resp.feed = <<>>
          THEN Finish(p, Returned(<<>>))
          ELSE LET parsed == ProcessFeed(resp.feed, ticker[p], min_relevance[p], now)
               IN IF parsed.exc # "none"
                  THEN Finish(p, parsed)
                  ELSE /\ news_items' = [news_items EXCEPT ![p] = parsed.items]
                       /\ reqTag' = [reqTag EXCEPT ![p] = providerCalls + 1]
                       /\ pc' = [pc EXCEPT ![p] = "store_items"]
                       /\ UNCHANGED <<result, ticker, min_relevance, seenTag>>
    /\ UNCHANGED <<storeVars, now, started, cleared>>

\* _cache[cache_key] = news_items
StoreItems(p) ==
    /\ pc[p] = "store_items"
    /\ LET key == _get_cache_key(ticker[p])
       IN /\ cache' = CachePut(cache, key, news_items[p])
          /\ cacheTag' = TagPut(cacheTag, key, reqTag[p])
          /\ lastPut' = TagPut(lastPut, key, news_items[p])
    /\ pc' = [pc EXCEPT ![p] = "store_stamp"]
    /\ UNCHANGED <<cache_timestamps, tsTag, localVars, countVars, now, result>>

\* _cache_timestamps[cache_key] = time.time(); return news_items
StoreStamp(p) ==
    /\ pc[p] = "store_stamp"
    /\ LET key == _get_cache_key(ticker[p])
       IN /\ cache_timestamps' = StampPut(cache_timestamps, key, now)
          /\ tsTag' = TagPut(tsTag, key, reqTag[p])
    /\ Finish(p, Returned(news_items[p]))
    /\ UNCHANGED <<cache, cacheTag, lastPut, countVars, now>>

\* _clear_cache: _cache.clear()
ClearItems(p) ==
    /\ pc[p] \in {"idle", "done"}
    /\ cleared' = TRUE
    /\ cache' = Empty
    /\ cacheTag' = Empty
    /\ pc' = [pc EXCEPT ![p] = "clear_stamps"]
    /\ UNCHANGED <<cache_timestamps, tsTag, lastPut, localVars, providerCalls, started, now,
                   result>>

\* _clear_cache: _cache_timestamps.clear()
ClearStamps(p) ==
    /\ pc[p] = "clear_stamps"
    /\ cache_timestamps' = Empty
    /\ tsTag' = Empty
    /\ pc' = [pc EXCEPT ![p] = "idle"]
    /\ UNCHANGED <<cache, cacheTag, lastPut, localVars, countVars, now, result>>

\* the instants the clock is read at: around one and two lifetimes of an entry
Instants == {0, CACHE_TTL - 1, CACHE_TTL, 2 * CACHE_TTL}

\* the clock advances
Tick ==
    /\ \E t \in Instants : t > now /\ now' = t
    /\ UNCHANGED <<storeVars, localVars, countVars, pc, result>>

NextCache ==
    \/ \E p \in Threads, t \in TickerInputs : FetchStart(p, t) /\ UNCHANGED <<modelVars, newsVars, otherVars>>
    \/ \E p \in Threads : ValidGet(p) /\ UNCHANGED <<modelVars, newsVars, otherVars>>
    \/ \E p \in Threads : HitRead(p) /\ UNCHANGED <<modelVars, newsVars, otherVars>>
    \/ \E p \in Threads, resp \in Responses : Request(p, resp) /\ UNCHANGED <<modelVars, newsVars, otherVars>>
    \/ \E p \in Threads : StoreItems(p) /\ UNCHANGED <<modelVars, newsVars, otherVars>>
    \/ \E p \in Threads : StoreStamp(p) /\ UNCHANGED <<modelVars, newsVars, otherVars>>
    \/ \E p \in Threads : ClearItems(p) /\ UNCHANGED <<modelVars, newsVars, otherVars>>
    \/ \E p \in Threads : ClearStamps(p) /\ UNCHANGED <<modelVars, newsVars, otherVars>>
    \/ Tick /\ UNCHANGED <<modelVars, newsVars, otherVars>>

SpecCache == InitDirect /\ [][NextCache]_vars

\* the fetcher called by one thread, one call after the other
NextCacheSerial ==
    \/ \E t \in TickerInputs : FetchStart(1, t) /\ UNCHANGED <<modelVars, newsVars, otherVars>>
    \/ ValidGet(1) /\ UNCHANGED <<modelVars, newsVars, otherVars>>
    \/ HitRead(1) /\ UNCHANGED <<modelVars, newsVars, otherVars>>
    \/ \E resp \in Responses \cup FailureResponses :
          Request(1, resp) /\ UNCHANGED <<modelVars, newsVars, otherVars>>
    \/ StoreItems(1) /\ UNCHANGED <<modelVars, newsVars, otherVars>>
    \/ StoreStamp(1) /\ UNCHANGED <<modelVars, newsVars, otherVars>>
    \/ Tick /\ UNCHANGED <<modelVars, newsVars, otherVars>>

SpecCacheSerial == InitDirect /\ [][NextCacheSerial]_vars

\* ------------------------------------- one fetch, from arguments to result
MaxFeedLen == 2

\* feed entries as the provider documents them, and entries that are not
FeedEntryPool == {EntryA1, EntryA2, EntryLow, EntryB1, EntryOther, EntryNoStamp,
                  EntryNullStamp, EntryBadRelevance, EntryNotObject, EntryBadSub, EntryHot}

FeedInputs == UNION {[1..n -> FeedEntryPool] : n \in 0..MaxFeedLen}

\* min_relevance arguments: below, at and above the relevance of the entries
Thresholds == {0, MIN_RELEVANCE_SCORE, MIN_RELEVANCE_SCORE + 5, 100}

FeedTickers == {AAPL, <<"a", "a", "p", "l">>}

InitFeed ==
    /\ InitState
    /\ phase = "direct"
    /\ feed_in \in FeedInputs
    /\ ticker_in \in FeedTickers
    /\ min_in \in Thresholds
    /\ validated = NotValidated
    /\ InitPure

\* fetch_financial_news(ticker_in, min_relevance=min_in) on a cold cache
FeedFetch ==
    /\ started = 0
    /\ pc[1] = "idle"
    /\ CallFetchWith(1, ticker_in, min_in)

\* the provider answers with feed_in
FeedRequest == Request(1, HttpResponse(200, FALSE, FALSE, feed_in))

\* the time of day the call is made at
FeedTick == started = 0 /\ Tick

NextFeed ==
    \/ FeedFetch /\ UNCHANGED <<modelVars, newsVars, otherVars>>
    \/ FeedRequest /\ UNCHANGED <<modelVars, newsVars, otherVars>>
    \/ StoreItems(1) /\ UNCHANGED <<modelVars, newsVars, otherVars>>
    \/ StoreStamp(1) /\ UNCHANGED <<modelVars, newsVars, otherVars>>
    \/ FeedTick /\ UNCHANGED <<modelVars, newsVars, otherVars>>

SpecFeed == InitFeed /\ [][NextFeed]_vars

\* ------------------------------------------------- validate_ticker alone
MaxTickerLen == 6

\* letters of AAPL in both cases, a digit and a newline
TickerAlphabet == {"A", "a", "P", "p", "L", "1", "\n"}

ValidateInputs == UNION {[1..n -> TickerAlphabet] : n \in 0..MaxTickerLen}

InitValidate ==
    /\ InitState
    /\ phase = "direct"
    /\ feed_in = <<>>
    /\ min_in = MIN_RELEVANCE_SCORE
    /\ ticker_in \in ValidateInputs
    /\ validated = NotValidated
    /\ InitPure

\* validate_ticker(ticker_in): True, or ValueError with the message of the
\* rule that failed
ValidateTicker ==
    /\ validated = NotValidated
    /\ validated' = IF validate_ticker(ticker_in) = "ok"
                    THEN [exc |-> "none", msg |-> "", value |-> TRUE]
                    ELSE [exc |-> "ValueError", msg |-> validate_ticker(ticker_in),
                          value |-> FALSE]
    /\ UNCHANGED <<feed_in, ticker_in, min_in>>

NextValidate ==
    ValidateTicker /\ UNCHANGED <<cacheVars, modelVars, newsVars, analyzeVars, pureVars>>

SpecValidate == InitValidate /\ [][NextValidate]_vars

\* ------------------------------------------- the classifier's operations
\* the with block never ends without releasing the lock it took
LockExitLeakOnError(holder, raised) == IF raised THEN LockedBy(holder) ELSE Unlocked

\* with _model_lock: the lock is released on return and on exception
LockExit(holder, raised) == Unlocked

\* no second look at _model_pipeline after the lock is taken
NeedsLoadUnchecked(mp) == TRUE

\* line 65: if _model_pipeline is None
NeedsLoad(mp) == mp = None

\* initialize_model: a new handle, or RuntimeError
NewHandle == Handle(constructions + 1)

MFinish(p, outcome) ==
    /\ mpc' = [mpc EXCEPT ![p] = "done"]
    /\ mres' = [mres EXCEPT ![p] = outcome]

\* startup_event: get_sentiment_pipeline on the only thread there is; a
\* failure is logged and startup goes on
StartupEvent(ok) ==
    /\ phase = "boot"
    /\ phase' = "serving"
    /\ IF NeedsLoad(model_pipeline) /\ ok
       THEN /\ model_pipeline' = NewHandle
            /\ constructions' = constructions + 1
       ELSE UNCHANGED <<model_pipeline, constructions>>
    /\ UNCHANGED <<model_lock, mpc, mres, mstarted, classifyRequested, waitedOnFailure>>

\* get_sentiment_pipeline is entered: the check without the lock, lines 59-60
GspEnter(p) ==
    /\ phase # "boot"
    /\ mpc[p] \in {"idle", "done"}
    /\ mstarted < MaxCalls
    /\ mstarted' = mstarted + 1
    /\ waitedOnFailure' = [waitedOnFailure EXCEPT ![p] = FALSE]
    /\ IF model_pipeline # None
       THEN MFinish(p, GotHandle(model_pipeline))
       ELSE /\ mpc' = [mpc EXCEPT ![p] = "acquire"]
            /\ mres' = [mres EXCEPT ![p] = NoHandle]
    /\ UNCHANGED <<model_pipeline, model_lock, phase, constructions>>

\* health_check calls get_sentiment_pipeline
HealthCheck(p) ==
    /\ GspEnter(p)
    /\ UNCHANGED classifyRequested

\* analyze_sentiment and batch_analyze_sentiment call get_sentiment_pipeline
AnalyzeCall(p) ==
    /\ GspEnter(p)
    /\ classifyRequested' = TRUE

\* with _model_lock, then the second check, lines 63-65 and 69
Acquire(p) ==
    /\ mpc[p] = "acquire"
    /\ model_lock = Unlocked
    /\ IF NeedsLoad(model_pipeline)
       THEN /\ model_lock' = LockedBy(p)
            /\ mpc' = [mpc EXCEPT ![p] = "init"]
            /\ UNCHANGED mres
       ELSE /\ model_lock' = LockExit(p, FALSE)
            /\ MFinish(p, GotHandle(model_pipeline))
    /\ UNCHANGED <<model_pipeline, phase, mstarted, constructions, classifyRequested,
                   waitedOnFailure>>

\* _model_pipeline = initialize_model(); return _model_pipeline, lines 67-69
InitializeModel(p, ok) ==
    /\ mpc[p] = "init"
    /\ IF ok
       THEN /\ model_pipeline' = NewHandle
            /\ constructions' = constructions + 1
            /\ MFinish(p, GotHandle(NewHandle))
            /\ UNCHANGED waitedOnFailure
       ELSE /\ MFinish(p, InitFailed)
            /\ waitedOnFailure' = [q \in Threads |->
                                     waitedOnFailure[q] \/ (q # p /\ mpc[q] = "acquire")]
            /\ UNCHANGED <<model_pipeline, constructions>>
    /\ model_lock' = LockExit(p, ~ok)
    /\ UNCHANGED <<phase, mstarted, classifyRequested>>

NextModel ==
    \/ \E ok \in BOOLEAN : StartupEvent(ok) /\ UNCHANGED <<cacheVars, newsVars, otherVars>>
    \/ \E p \in Threads : HealthCheck(p) /\ UNCHANGED <<cacheVars, newsVars, otherVars>>
    \/ \E p \in Threads : AnalyzeCall(p) /\ UNCHANGED <<cacheVars, newsVars, otherVars>>
    \/ \E p \in Threads : Acquire(p) /\ UNCHANGED <<cacheVars, newsVars, otherVars>>
    \/ \E p \in Threads, ok \in BOOLEAN : InitializeModel(p, ok) /\ UNCHANGED <<cacheVars, newsVars, otherVars>>

SpecModel == Init /\ [][NextModel]_vars

\* a thread that can take the lock does, and a construction comes to an end
FairSpecModel ==
    /\ SpecModel
    /\ \A p \in Threads : WF_vars(Acquire(p) /\ UNCHANGED <<cacheVars, newsVars, otherVars>>)
    /\ \A p \in Threads : WF_vars(\E ok \in BOOLEAN : InitializeModel(p, ok) /\ UNCHANGED <<cacheVars, newsVars, otherVars>>)

\* ------------------------------------------------ the classifier's claims
C3_OneHandle ==
    /\ constructions <= 1
    /\ (model_pipeline # None) => (constructions = 1 /\ model_pipeline = Handle(1))
    /\ \A p \in Threads :
          (mpc[p] = "done" /\ mres[p].exc = "none")
          => (model_pipeline # None /\ mres[p].handle = model_pipeline)

C3_HandleKept == (model_pipeline # None) => (model_pipeline' = model_pipeline)

\* C3: whatever the interleaving of the calls to get_sentiment_pipeline,
\* initialize_model returns a handle at most once, every call that returns
\* returns that handle, and _model_pipeline, once set, keeps its value.
C3_ConstructedOnce == []C3_OneHandle /\ [][C3_HandleKept]_vars

\* one thread has constructed the handle and returned it while another, that
\* found _model_pipeline unset before, is still on its way to the lock
C3_Witness ==
    \E p, q \in Threads :
        /\ p # q
        /\ phase = "direct"
        /\ mpc[p] = "done" /\ mres[p] = GotHandle(Handle(1))
        /\ mpc[q] = "acquire"
        /\ model_pipeline = Handle(1)

\* C6: a thread that was waiting for the lock while the holder's
\* initialize_model raised does not construct in that call, and the call ends
\* with the initialization error.
C6_FailureFatalToWaiters ==
    \A p \in Threads :
        waitedOnFailure[p]
        => /\ mpc[p] # "init"
           /\ (mpc[p] = "done") => (mres[p].exc = "RuntimeError")

C7_LockFollowsConstruction ==
    /\ model_lock.held => (model_lock.by \in Threads /\ mpc[model_lock.by] = "init")
    /\ \A p \in Threads : (mpc[p] = "init") => (model_lock = LockedBy(p))

C7_AttemptStep ==
    \A p \in Threads :
        /\ (mpc[p] = "init" /\ mpc'[p] = "done" /\ mres'[p].exc = "RuntimeError")
           => (model_pipeline' = None /\ model_lock' = Unlocked)
        /\ (mpc[p] = "init" /\ mpc'[p] = "done" /\ mres'[p].exc = "none")
           => (model_pipeline' # None /\ mres'[p].handle = model_pipeline'
               /\ model_lock' = Unlocked)
        /\ (mpc[p] = "acquire" /\ mpc'[p] # "acquire" /\ model_pipeline = None)
           => mpc'[p] = "init"

C7_NoCallerStuck == \A p \in Threads : (mpc[p] \in {"acquire", "init"}) ~> (mpc[p] = "done")

\* C7: a construction that fails leaves _model_pipeline unset and the lock
\* free; a call that then finds it unset constructs again and, when that
\* succeeds, returns the handle; and, every construction coming to an end,
\* every call to get_sentiment_pipeline returns or raises.
C7_RetryAfterFailure ==
    /\ []C7_LockFollowsConstruction
    /\ [][C7_AttemptStep]_vars
    /\ C7_NoCallerStuck

\* one call has ended with the initialization error and a later
\* construction has succeeded and returned the handle
C7_Witness ==
    \E p, q \in Threads :
        /\ p # q
        /\ phase = "direct"
        /\ mpc[p] = "done" /\ mres[p] = InitFailed
        /\ mpc[q] = "done" /\ mres[q] = GotHandle(Handle(1))
        /\ model_lock = Unlocked

\* C8: no construction of the classifier is under way or complete before a
\* classification has been asked for.
C8_ConstructedOnFirstDemand ==
    (constructions > 0 \/ model_pipeline # None \/ \E p \in Threads : mpc[p] = "init")
    => classifyRequested

\* ------------------------------------------------------ the /news route
\* str.lower(), character by character
UpperCaseChars == <<"A", "B", "C", "D", "E", "F", "G", "H", "I", "J", "K", "L", "M", "N", "O", "P", "Q", "R", "S", "T", "U", "V", "W", "X", "Y", "Z">>
LowerCaseChars == <<"a", "b", "c", "d", "e", "f", "g", "h", "i", "j", "k", "l", "m", "n", "o", "p", "q", "r", "s", "t", "u", "v", "w", "x", "y", "z">>

LowerChar(c) ==
    IF \E i \in 1..Len(UpperCaseChars) : UpperCaseChars[i] = c
    THEN LowerCaseChars[CHOOSE i \in 1..Len(UpperCaseChars) : UpperCaseChars[i] = c]
    ELSE c

Lower(s) == [i \in 1..Len(s) |-> LowerChar(s[i])]

POSITIVE == <<"p", "o", "s", "i", "t", "i", "v", "e">>
NEGATIVE == <<"n", "e", "g", "a", "t", "i", "v", "e">>
NEUTRAL == <<"n", "e", "u", "t", "r", "a", "l">>

\* label_mapping of normalize_label
label_mapping ==
    (POSITIVE :> POSITIVE) @@ (<<"b", "u", "l", "l", "i", "s", "h">> :> POSITIVE) @@ (<<"l", "a", "b", "e", "l", "_", "2">> :> POSITIVE)
    @@ (NEGATIVE :> NEGATIVE) @@ (<<"b", "e", "a", "r", "i", "s", "h">> :> NEGATIVE) @@ (<<"l", "a", "b", "e", "l", "_", "0">> :> NEGATIVE)
    @@ (NEUTRAL :> NEUTRAL) @@ (<<"l", "a", "b", "e", "l", "_", "1">> :> NEUTRAL)

\* the label is looked up as it is written, without lower()
normalize_label_case_sensitive(label) ==
    IF label \in DOMAIN label_mapping THEN label_mapping[label] ELSE NEUTRAL

\* normalize_label: label_mapping.get(label.lower(), "neutral")
normalize_label(label) ==
    IF Lower(label) \in DOMAIN label_mapping THEN label_mapping[Lower(label)] ELSE NEUTRAL

\* scores are counted in hundred-thousandths: 80000 is 0.8
\* round(score, 4): to the nearest ten, a tie to the even one
Round4(score) ==
    LET q == score \div 10
        r == score % 10
    IN IF r > 5 \/ (r = 5 /\ q % 2 = 1) THEN (q + 1) * 10 ELSE q * 10

\* get_confidence_level
get_confidence_level(score) ==
    IF score > 80000 THEN "high" ELSE IF score > 60000 THEN "medium" ELSE "low"

\* what the pipeline answers for a text
RawPrediction == [label |-> POSITIVE, score |-> 90000]

NoWarning == ""
LowConfidenceWarning == "Low confidence prediction - results may be unreliable"

\* analyze_sentiment's response for a raw prediction, lines 87-101: the band
\* and the warning come from the raw score, the score is reported rounded
SentimentOf(raw) ==
    [label |-> normalize_label(raw.label),
     score |-> Round4(raw.score),
     confidence |-> get_confidence_level(raw.score),
     warning |-> IF get_confidence_level(raw.score) = "low"
                 THEN LowConfidenceWarning ELSE NoWarning]

\* SentimentResult(**result): determine_confidence sets the band again,
\* from the score it is given; the warning is taken as it comes
SentimentResult(fields) ==
    [label |-> fields.label,
     score |-> fields.score,
     confidence |-> get_confidence_level(fields.score),
     warning |-> fields.warning]

\* the except clauses of get_news, lines 174-188
\* the exceptions that except ValueError catches: json's and requests'
\* JSONDecodeError are subclasses of ValueError
ValueErrorKinds == {"ValueError", "JSONDecodeError"}

StatusOf(exc) ==
    IF exc \in ValueErrorKinds THEN 400
    ELSE IF exc = "ConnectionError" THEN 503
    ELSE IF exc = "TimeoutError" THEN 504
    ELSE 500

\* the cache_hit that get_news puts in its NewsFeedResponse, line 171
CacheHitFlag(served_from_cache) == FALSE

\* get_news is entered and calls fetch_financial_news
GetNews(p, t) ==
    /\ phase # "boot"
    /\ npc[p] \in {"idle", "done"}
    /\ CallFetch(p, t)
    /\ npc' = [npc EXCEPT ![p] = "fetch"]
    /\ response' = [response EXCEPT ![p] = NoResponse]
    /\ fromCache' = [fromCache EXCEPT ![p] = FALSE]
    /\ fetched' = [fetched EXCEPT ![p] = NoResult]
    /\ outcomes' = [outcomes EXCEPT ![p] = <<>>]
    /\ UNCHANGED <<todo, analyzed_items, classifiedOnHit>>

\* fetch_financial_news returns the cached list to get_news
NewsHitRead(p) ==
    /\ HitRead(p)
    /\ fromCache' = [fromCache EXCEPT ![p] = result'[p].exc = "none"]
    /\ UNCHANGED <<npc, todo, analyzed_items, response, classifiedOnHit, fetched, outcomes>>

\* fetch_financial_news has returned or raised: get_news takes what it gave
FetchReturned(p) ==
    /\ npc[p] = "fetch"
    /\ pc[p] = "done"
    /\ pc' = [pc EXCEPT ![p] = "idle"]
    /\ result' = [result EXCEPT ![p] = NoResult]
    /\ IF result[p].exc # "none"
       THEN /\ response' = [response EXCEPT ![p] =
                              [status_code |-> StatusOf(result[p].exc), items |-> <<>>,
                               cache_hit |-> FALSE]]
            /\ npc' = [npc EXCEPT ![p] = "done"]
            /\ UNCHANGED todo
       ELSE /\ todo' = [todo EXCEPT ![p] = result[p].items]
            /\ npc' = [npc EXCEPT ![p] = "analyze"]
            /\ UNCHANGED response
    /\ fetched' = [fetched EXCEPT ![p] = result[p]]
    /\ UNCHANGED <<analyzed_items, fromCache, classifiedOnHit, outcomes>>
    /\ UNCHANGED <<storeVars, localVars, countVars, now>>

ClassifyOutcomes == {"ok", "init_error", "inference_error"}

\* the fields of NewsItem that carry a range: relevance_score in [0, 1],
\* sentiment_score in [-1, 1]
ValidNewsItem(item) ==
    /\ item.relevance_score >= 0 /\ item.relevance_score <= 100
    /\ item.sentiment_score >= -100 /\ item.sentiment_score <= 100

\* an item whose analysis failed is answered all the same
AfterItemKeepsFailed(analyzed, item, outcome) ==
    Append(analyzed, [item |-> item, ml_sentiment |-> SentimentResult(SentimentOf(RawPrediction))])

\* lines 145-163: the item joins analyzed_items when analyze_sentiment and the
\* construction of NewsItemWithAnalysis both succeed; otherwise it is left out
AfterItem(analyzed, item, outcome) ==
    IF outcome = "ok" /\ ValidNewsItem(item)
    THEN Append(analyzed, [item |-> item, ml_sentiment |-> SentimentResult(SentimentOf(RawPrediction))])
    ELSE analyzed

\* one turn of the loop of get_news: analyze_sentiment on the item's text,
\* then NewsItemWithAnalysis(**item, ...).  get_sentiment_pipeline runs here as
\* one step; an exception of analyze_sentiment or of the construction of the
\* NewsItemWithAnalysis is logged and the item left out
AnalyzeItem(p, outcome) ==
    /\ npc[p] = "analyze"
    /\ todo[p] # <<>>
    /\ (outcome = "init_error") => NeedsLoad(model_pipeline)
    /\ IF NeedsLoad(model_pipeline) /\ outcome # "init_error"
       THEN /\ model_pipeline' = NewHandle
            /\ constructions' = constructions + 1
       ELSE UNCHANGED <<model_pipeline, constructions>>
    /\ analyzed_items' = [analyzed_items EXCEPT ![p] = AfterItem(@, Head(todo[p]), outcome)]
    /\ todo' = [todo EXCEPT ![p] = Tail(@)]
    /\ classifyRequested' = TRUE
    /\ classifiedOnHit' = (classifiedOnHit \/ fromCache[p])
    /\ outcomes' = [outcomes EXCEPT ![p] = Append(@, outcome)]
    /\ UNCHANGED <<npc, response, fromCache, fetched>>
    /\ UNCHANGED <<model_lock, phase, mpc, mres, mstarted, waitedOnFailure>>

\* return NewsFeedResponse(...)
Respond(p) ==
    /\ npc[p] = "analyze"
    /\ todo[p] = <<>>
    /\ response' = [response EXCEPT ![p] =
                      [status_code |-> 200, items |-> analyzed_items[p],
                       cache_hit |-> CacheHitFlag(fromCache[p])]]
    /\ analyzed_items' = [analyzed_items EXCEPT ![p] = <<>>]
    /\ npc' = [npc EXCEPT ![p] = "done"]
    /\ UNCHANGED <<todo, fromCache, classifiedOnHit, fetched, outcomes>>

NextNews ==
    \/ \E ok \in BOOLEAN : StartupEvent(ok) /\ UNCHANGED <<cacheVars, newsVars, otherVars>>
    \/ \E p \in Threads, t \in TickerInputs : GetNews(p, t) /\ UNCHANGED <<modelVars, otherVars>>
    \/ \E p \in Threads : ValidGet(p) /\ UNCHANGED <<modelVars, newsVars, otherVars>>
    \/ \E p \in Threads : NewsHitRead(p) /\ UNCHANGED <<modelVars, otherVars>>
    \/ \E p \in Threads, resp \in Responses : Request(p, resp) /\ UNCHANGED <<modelVars, newsVars, otherVars>>
    \/ \E p \in Threads : StoreItems(p) /\ UNCHANGED <<modelVars, newsVars, otherVars>>
    \/ \E p \in Threads : StoreStamp(p) /\ UNCHANGED <<modelVars, newsVars, otherVars>>
    \/ \E p \in Threads : FetchReturned(p) /\ UNCHANGED <<modelVars, otherVars>>
    \/ \E p \in Threads, o \in ClassifyOutcomes : AnalyzeItem(p, o) /\ UNCHANGED <<cacheVars, otherVars>>
    \/ \E p \in Threads : Respond(p) /\ UNCHANGED <<cacheVars, modelVars, otherVars>>
    \/ Tick /\ UNCHANGED <<modelVars, newsVars, otherVars>>

SpecNews == InitBoot /\ [][NextNews]_vars

\* the application serving one request at a time
NextNewsSerial ==
    \/ \E ok \in BOOLEAN : StartupEvent(ok) /\ UNCHANGED <<cacheVars, newsVars, otherVars>>
    \/ \E t \in TickerInputs : GetNews(1, t) /\ UNCHANGED <<modelVars, otherVars>>
    \/ ValidGet(1) /\ UNCHANGED <<modelVars, newsVars, otherVars>>
    \/ NewsHitRead(1) /\ UNCHANGED <<modelVars, otherVars>>
    \/ \E resp \in Responses \cup FailureResponses :
          Request(1, resp) /\ UNCHANGED <<modelVars, newsVars, otherVars>>
    \/ StoreItems(1) /\ UNCHANGED <<modelVars, newsVars, otherVars>>
    \/ StoreStamp(1) /\ UNCHANGED <<modelVars, newsVars, otherVars>>
    \/ FetchReturned(1) /\ UNCHANGED <<modelVars, otherVars>>
    \/ \E o \in ClassifyOutcomes : AnalyzeItem(1, o) /\ UNCHANGED <<cacheVars, otherVars>>
    \/ Respond(1) /\ UNCHANGED <<cacheVars, modelVars, otherVars>>
    \/ Tick /\ UNCHANGED <<modelVars, newsVars, otherVars>>

SpecNewsSerial == InitBoot /\ [][NextNewsSerial]_vars

\* ------------------------------------- analyze_sentiment and its batch form
Whitespace == {" "}

RECURSIVE LStrip(_)
LStrip(text) ==
    IF text = <<>> THEN <<>>
    ELSE IF Head(text) \in Whitespace THEN LStrip(Tail(text))
    ELSE text

RECURSIVE RStrip(_)
RStrip(text) ==
    IF text = <<>> THEN <<>>
    ELSE IF text[Len(text)] \in Whitespace THEN RStrip(SubSeq(text, 1, Len(text) - 1))
    ELSE text

\* str.strip()
Strip(text) == RStrip(LStrip(text))

\* the cut keeps one character more than the limit
TruncateKeepsOneMore(text) ==
    IF Len(text) > MAX_TEXT_LENGTH * 4 THEN SubSeq(text, 1, MAX_TEXT_LENGTH * 4 + 1) ELSE text

\* text[:settings.MAX_TEXT_LENGTH * 4] when the text is longer than that
Truncate(text) ==
    IF Len(text) > MAX_TEXT_LENGTH * 4 THEN SubSeq(text, 1, MAX_TEXT_LENGTH * 4) ELSE text

\* a text of n characters: "x" up to the limit of Truncate, "y" beyond it
LongText(n) == [i \in 1..n |-> IF i <= MAX_TEXT_LENGTH * 4 THEN "x" ELSE "y"]

\* the same text between two blanks
Padded(text) == <<" ">> \o text \o <<" ">>

\* the texts the callers pass in: empty, blank, plain, padded, and one padded
\* text longer than the limit
TextInputs ==
    {<<>>, <<" ">>, <<"x">>, <<" ", "x", " ">>, Padded(LongText(MAX_TEXT_LENGTH * 4 + 1))}

\* the lists batch_analyze_sentiment is called with
BatchInputs ==
    {<<>>, <<<<"x">>>>, <<<<" ", "x", " ">>, <<" ">>>>, <<<<>>, <<"x">>>>,
     <<Padded(LongText(MAX_TEXT_LENGTH * 4 + 1))>>}

\* texts around the limit: one character short of it, exactly at it, one
\* beyond it, half as long again, and padded ones
LongInputs ==
    {LongText(MAX_TEXT_LENGTH * 4 - 1), LongText(MAX_TEXT_LENGTH * 4),
     LongText(MAX_TEXT_LENGTH * 4 + 1), LongText(MAX_TEXT_LENGTH * 6),
     Padded(LongText(MAX_TEXT_LENGTH * 4)), Padded(LongText(MAX_TEXT_LENGTH * 4 + 1))}

\* what the pipeline may answer: labels in the spellings of label_mapping,
\* scores in each band
PipelineAnswers ==
    {RawPrediction,
     [label |-> <<"L", "A", "B", "E", "L", "_", "0">>, score |-> 70000],
     [label |-> <<"B", "u", "l", "l", "i", "s", "h">>, score |-> 30000]}

\* lines 73-74: not text or not text.strip()
IsBlank(text) == text = <<>> \/ Strip(text) = <<>>

\* the loop of lines 118-122: each text cut, then stripped
ProcessedTexts(texts) == [i \in 1..Len(texts) |-> Strip(Truncate(texts[i]))]

AFinish(p, outcome) ==
    /\ apc' = [apc EXCEPT ![p] = "done"]
    /\ ares' = [ares EXCEPT ![p] = outcome]

\* analyze_sentiment up to its call of get_sentiment_pipeline, lines 73-84
AnalyzeSentiment(p, text) ==
    /\ apc[p] \in {"idle", "done"}
    /\ IF IsBlank(text)
       THEN /\ AFinish(p, Raised("ValueError", "Text cannot be empty"))
            /\ acall' = [acall EXCEPT ![p] = [op |-> "single", given |-> <<text>>,
                                               texts |-> <<>>]]
            /\ UNCHANGED modelVars
       ELSE /\ AnalyzeCall(p)
            /\ apc' = [apc EXCEPT ![p] = "pipeline"]
            /\ acall' = [acall EXCEPT ![p] = [op |-> "single", given |-> <<text>>,
                                               texts |-> <<Truncate(Strip(text))>>]]
            /\ ares' = [ares EXCEPT ![p] = NoResult]
    /\ UNCHANGED submitted

\* batch_analyze_sentiment up to its call of get_sentiment_pipeline, lines 109-116
BatchAnalyzeSentiment(p, texts) ==
    /\ apc[p] \in {"idle", "done"}
    /\ IF texts = <<>>
       THEN /\ AFinish(p, Returned(<<>>))
            /\ acall' = [acall EXCEPT ![p] = [op |-> "batch", given |-> <<>>, texts |-> <<>>]]
            /\ UNCHANGED modelVars
       ELSE /\ AnalyzeCall(p)
            /\ apc' = [apc EXCEPT ![p] = "pipeline"]
            /\ acall' = [acall EXCEPT ![p] = [op |-> "batch", given |-> texts,
                                               texts |-> ProcessedTexts(texts)]]
            /\ ares' = [ares EXCEPT ![p] = NoResult]
    /\ UNCHANGED submitted

\* get_sentiment_pipeline has returned or raised; the pipeline is invoked on
\* the texts and answers or raises; every exception leaves as RuntimeError,
\* lines 85-105 and 118-148
InferWith(p, ok, raw) ==
    /\ apc[p] = "pipeline"
    /\ mpc[p] = "done"
    /\ UNCHANGED acall
    /\ IF mres[p].exc # "none"
       THEN /\ AFinish(p, Raised("RuntimeError", "Model initialization failed"))
            /\ UNCHANGED submitted
       ELSE /\ submitted' = submitted \cup {acall[p].texts[i] : i \in 1..Len(acall[p].texts)}
            /\ IF ok
               THEN AFinish(p, Returned([i \in 1..Len(acall[p].texts) |-> SentimentOf(raw)]))
               ELSE AFinish(p, Raised("RuntimeError", "inference"))
    /\ UNCHANGED modelVars

Infer(p, ok) == InferWith(p, ok, RawPrediction)

NextAnalyze ==
    \/ \E p \in Threads, text \in TextInputs :
          AnalyzeSentiment(p, text) /\ UNCHANGED <<cacheVars, newsVars, inputVars, pureVars>>
    \/ \E p \in Threads, texts \in BatchInputs :
          BatchAnalyzeSentiment(p, texts) /\ UNCHANGED <<cacheVars, newsVars, inputVars, pureVars>>
    \/ \E p \in Threads : Acquire(p) /\ UNCHANGED <<cacheVars, newsVars, otherVars>>
    \/ \E p \in Threads, ok \in BOOLEAN :
          InitializeModel(p, ok) /\ UNCHANGED <<cacheVars, newsVars, otherVars>>
    \/ \E p \in Threads, ok \in BOOLEAN : Infer(p, ok) /\ UNCHANGED <<cacheVars, newsVars, inputVars, pureVars>>

SpecAnalyze == InitDirect /\ [][NextAnalyze]_vars

\* one caller, texts around the limit, every answer of the pipeline
NextAnalyzeSerial ==
    \/ \E text \in TextInputs \cup LongInputs :
          AnalyzeSentiment(1, text) /\ UNCHANGED <<cacheVars, newsVars, inputVars, pureVars>>
    \/ \E texts \in BatchInputs :
          BatchAnalyzeSentiment(1, texts) /\ UNCHANGED <<cacheVars, newsVars, inputVars, pureVars>>
    \/ Acquire(1) /\ UNCHANGED <<cacheVars, newsVars, otherVars>>
    \/ \E ok \in BOOLEAN : InitializeModel(1, ok) /\ UNCHANGED <<cacheVars, newsVars, otherVars>>
    \/ \E ok \in BOOLEAN, raw \in PipelineAnswers :
          InferWith(1, ok, raw) /\ UNCHANGED <<cacheVars, newsVars, inputVars, pureVars>>

SpecAnalyzeSerial == InitDirect /\ [][NextAnalyzeSerial]_vars

\* ------------------------------ one prediction, from the pipeline to /analyze
\* the spellings of label_mapping in lower case, in upper case and
\* capitalized, and labels that are not in it
LabelInputs ==
    {<<"p", "o", "s", "i", "t", "i", "v", "e">>,
     <<"P", "O", "S", "I", "T", "I", "V", "E">>,
     <<"P", "o", "s", "i", "t", "i", "v", "e">>,
     <<"b", "u", "l", "l", "i", "s", "h">>,
     <<"B", "U", "L", "L", "I", "S", "H">>,
     <<"B", "u", "l", "l", "i", "s", "h">>,
     <<"l", "a", "b", "e", "l", "_", "2">>,
     <<"L", "A", "B", "E", "L", "_", "2">>,
     <<"L", "a", "b", "e", "l", "_", "2">>,
     <<"n", "e", "g", "a", "t", "i", "v", "e">>,
     <<"N", "E", "G", "A", "T", "I", "V", "E">>,
     <<"N", "e", "g", "a", "t", "i", "v", "e">>,
     <<"b", "e", "a", "r", "i", "s", "h">>,
     <<"B", "E", "A", "R", "I", "S", "H">>,
     <<"B", "e", "a", "r", "i", "s", "h">>,
     <<"l", "a", "b", "e", "l", "_", "0">>,
     <<"L", "A", "B", "E", "L", "_", "0">>,
     <<"L", "a", "b", "e", "l", "_", "0">>,
     <<"n", "e", "u", "t", "r", "a", "l">>,
     <<"N", "E", "U", "T", "R", "A", "L">>,
     <<"N", "e", "u", "t", "r", "a", "l">>,
     <<"l", "a", "b", "e", "l", "_", "1">>,
     <<"L", "A", "B", "E", "L", "_", "1">>,
     <<"L", "a", "b", "e", "l", "_", "1">>,
     <<>>,
     <<"u", "n", "k", "n", "o", "w", "n">>,
     <<"L", "A", "B", "E", "L", "_", "3">>,
     <<"p", "o", "s", "i", "t", "i", "v", "e", " ">>,
     <<"p", "o", "s">>,
     <<"m", "i", "x", "e", "d">>}

\* raw scores in each band, at the two thresholds and within half a
\* ten-thousandth of them; none lies halfway between two ten-thousandths
ScoreInputs ==
    {0, 30000, 59996, 60000, 60004, 60010, 70000, 79996, 80000, 80004, 80010, 90000, 100000}

InitResult ==
    /\ InitState
    /\ phase = "direct"
    /\ InitInputs
    /\ raw_in \in [label : LabelInputs, score : ScoreInputs]
    /\ analysis = Pending
    /\ delivered = Pending
    /\ label_again = Pending
    /\ items_in = <<>>
    /\ stats_out = Pending

\* analyze_text: result = analyze_sentiment(request.text), with the pipeline
\* answering raw_in; return SentimentResult(**result)
AnalyzeText ==
    /\ analysis = Pending
    /\ analysis' = SentimentOf(raw_in)
    /\ delivered' = SentimentResult(SentimentOf(raw_in))
    /\ UNCHANGED <<raw_in, label_again, items_in, stats_out>>

\* normalize_label on the label analyze_sentiment has returned
NormalizeAgain ==
    /\ analysis # Pending
    /\ label_again = Pending
    /\ label_again' = [label |-> normalize_label(analysis.label)]
    /\ UNCHANGED <<raw_in, analysis, delivered, items_in, stats_out>>

NextResult ==
    \/ AnalyzeText /\ UNCHANGED <<cacheVars, modelVars, newsVars, analyzeVars, inputVars>>
    \/ NormalizeAgain /\ UNCHANGED <<cacheVars, modelVars, newsVars, analyzeVars, inputVars>>

SpecResult == InitResult /\ [][NextResult]_vars

\* ------------------------------------------------- get_sentiment_stats
MaxItems == 3

\* analyzed items as get_news answers them: the classifier's label, the feed's
\* sentiment_score and relevance_score in hundredths
StatsItem(label, sentiment, relevance) ==
    [ml_sentiment |-> [label |-> label], sentiment_score |-> sentiment,
     relevance_score |-> relevance]

StatsItemPool ==
    {StatsItem(POSITIVE, 50, 90), StatsItem(POSITIVE, 100, 100), StatsItem(NEGATIVE, -40, 60),
     StatsItem(NEGATIVE, -100, 40), StatsItem(NEUTRAL, 0, 45)}

StatsInputs == UNION {[1..n -> StatsItemPool] : n \in 0..MaxItems}

\* sum(1 for item in items if item.ml_sentiment.label == label)
RECURSIVE CountLabel(_, _)
CountLabel(items, label) ==
    IF items = <<>> THEN 0
    ELSE (IF Head(items).ml_sentiment.label = label THEN 1 ELSE 0)
         + CountLabel(Tail(items), label)

RECURSIVE SumOf(_, _)
SumOf(items, field) ==
    IF items = <<>> THEN 0 ELSE Head(items)[field] + SumOf(Tail(items), field)

ZeroDivisionError == [exc |-> "ZeroDivisionError"]

\* numerator * scale / denominator rounded to the nearest unit; raises on a
\* zero denominator as Python's / does
RoundedRatio(numerator, scale, denominator) ==
    IF denominator = 0 THEN ZeroDivisionError
    ELSE [exc |-> "none",
          value |-> (2 * numerator * scale + denominator) \div (2 * denominator)]

\* the validator calculate_distribution: percentages in hundredths of a percent
calculate_distribution(total, positive, negative, neutral) ==
    IF total = 0 THEN [positive |-> 0, negative |-> 0, neutral |-> 0]
    ELSE [positive |-> RoundedRatio(positive, 10000, total).value,
          negative |-> RoundedRatio(negative, 10000, total).value,
          neutral |-> RoundedRatio(neutral, 10000, total).value]

\* SentimentStats(...): the distribution passed in is replaced by the
\* validator's; averages in ten-thousandths
SentimentStats(total, positive, negative, neutral, avg_sentiment, avg_relevance) ==
    [status_code |-> 200,
     total_news |-> total,
     positive_count |-> positive,
     negative_count |-> negative,
     neutral_count |-> neutral,
     avg_sentiment_score |-> avg_sentiment,
     avg_relevance_score |-> avg_relevance,
     sentiment_distribution |-> calculate_distribution(total, positive, negative, neutral)]

\* except Exception: HTTPException(500, "Failed to calculate statistics")
StatsFailed == [status_code |-> 500]

\* lines 219-234: the counts, the averages, the SentimentStats
ComputeStats(items) ==
    LET avg_sentiment == RoundedRatio(SumOf(items, "sentiment_score"), 100, Len(items))
        avg_relevance == RoundedRatio(SumOf(items, "relevance_score"), 100, Len(items))
    IN IF avg_sentiment = ZeroDivisionError \/ avg_relevance = ZeroDivisionError
       THEN StatsFailed
       ELSE SentimentStats(Len(items), CountLabel(items, POSITIVE),
                           CountLabel(items, NEGATIVE), CountLabel(items, NEUTRAL),
                           avg_sentiment.value, avg_relevance.value)

\* the empty list is not set apart
get_sentiment_stats_unguarded(items) == ComputeStats(items)

\* get_sentiment_stats once get_news has answered with items, lines 207-234
get_sentiment_stats(items) ==
    IF items = <<>> THEN SentimentStats(0, 0, 0, 0, 0, 0) ELSE ComputeStats(items)

InitStats ==
    /\ InitState
    /\ phase = "direct"
    /\ InitInputs
    /\ raw_in = Pending
    /\ analysis = Pending
    /\ delivered = Pending
    /\ label_again = Pending
    /\ items_in \in StatsInputs
    /\ stats_out = Pending

GetSentimentStats ==
    /\ stats_out = Pending
    /\ stats_out' = get_sentiment_stats(items_in)
    /\ UNCHANGED <<raw_in, analysis, delivered, label_again, items_in>>

NextStats ==
    GetSentimentStats /\ UNCHANGED <<cacheVars, modelVars, newsVars, analyzeVars, inputVars>>

SpecStats == InitStats /\ [][NextStats]_vars

\* ------------------------------------------------- the analyzer's claims
\* nothing but whitespace, or nothing at all
C20_EmptyAfterTrim(text) == \A i \in 1..Len(text) : text[i] \in Whitespace

\* C20: a finished call of analyze_sentiment or batch_analyze_sentiment that
\* was given a text empty after trimming has raised ValueError("Text cannot be
\* empty"), and the pipeline has never been invoked with an empty text.
C20_EmptyInputRefused ==
    /\ <<>> \notin submitted
    /\ \A p \in Threads :
          ( /\ apc[p] = "done"
            /\ \E i \in 1..Len(acall[p].given) : C20_EmptyAfterTrim(acall[p].given[i]) )
          => ares[p] = Raised("ValueError", "Text cannot be empty")

\* the text as given, without the blanks around it
C21_Trimmed(text) ==
    LET first == CHOOSE i \in 1..Len(text) : text[i] # " " /\ \A j \in 1..(i - 1) : text[j] = " "
        last == CHOOSE i \in 1..Len(text) : text[i] # " " /\ \A j \in (i + 1)..Len(text) : text[j] = " "
    IN SubSeq(text, first, last)

C21_ValidResult(r) ==
    /\ r.label \in {POSITIVE, NEGATIVE, NEUTRAL}
    /\ r.score >= 0 /\ r.score <= 100000
    /\ r.confidence \in {"high", "medium", "low"}

\* C21: every text the pipeline has been invoked with has at most
\* 4 * MAX_TEXT_LENGTH characters, and an analyze_sentiment call that returned
\* has submitted the first 4 * MAX_TEXT_LENGTH characters of its trimmed text
\* when that text is longer, the trimmed text unchanged when it is not, and
\* has returned a valid sentiment result.
C21_LongTextCut ==
    /\ \A text \in submitted : Len(text) <= 4 * MAX_TEXT_LENGTH
    /\ \A p \in Threads :
          (apc[p] = "done" /\ acall[p].op = "single" /\ ares[p].exc = "none")
          => LET trimmed == C21_Trimmed(acall[p].given[1])
             IN /\ acall[p].texts[1] \in submitted
                /\ IF Len(trimmed) > 4 * MAX_TEXT_LENGTH
                   THEN /\ Len(acall[p].texts[1]) = 4 * MAX_TEXT_LENGTH
                        /\ \A i \in 1..(4 * MAX_TEXT_LENGTH) : acall[p].texts[1][i] = trimmed[i]
                   ELSE acall[p].texts[1] = trimmed
                /\ Len(ares[p].items) = 1
                /\ C21_ValidResult(ares[p].items[1])

\* a padded text longer than the limit has been analyzed and the call returned
C21_Witness ==
    /\ apc[1] = "done" /\ acall[1].op = "single" /\ ares[1].exc = "none"
    /\ acall[1].given[1][1] = " "
    /\ Len(C21_Trimmed(acall[1].given[1])) > 4 * MAX_TEXT_LENGTH
    /\ acall[1].texts[1] \in submitted

\* thread q's finished analyze_sentiment call was given the i-th text of
\* thread p's finished batch_analyze_sentiment call, which returned
C22_SameText(p, i, q) ==
    /\ apc[p] = "done" /\ acall[p].op = "batch" /\ ares[p].exc = "none"
    /\ apc[q] = "done" /\ acall[q].op = "single" /\ ares[q].exc # "RuntimeError"
    /\ i \in 1..Len(acall[p].given)
    /\ acall[q].given[1] = acall[p].given[i]

\* C22: a batch_analyze_sentiment call that returned has as many results as
\* it was given texts, and for a text that analyze_sentiment has also been
\* called with, the two calls handed the same text to the pipeline and
\* returned the same result.
C22_BatchAgreesWithSingle ==
    \A p \in Threads :
        (apc[p] = "done" /\ acall[p].op = "batch" /\ ares[p].exc = "none")
        => /\ Len(ares[p].items) = Len(acall[p].given)
           /\ \A q \in Threads, i \in 1..Len(acall[p].given) :
                 C22_SameText(p, i, q)
                 => /\ ares[q].exc = "none"
                    /\ acall[q].texts[1] = acall[p].texts[i]
                    /\ ares[q].items[1] = ares[p].items[i]

\* the same character, or the two cases of one letter
C23_SameLetter(c, d) ==
    \/ c = d
    \/ \E k \in 1..Len(UpperCaseChars) :
          {c, d} = {UpperCaseChars[k], LowerCaseChars[k]}

C23_IsSpelling(label, word) ==
    /\ Len(label) = Len(word)
    /\ \A i \in 1..Len(label) : C23_SameLetter(label[i], word[i])

C23_Spells(label, wordset) == \E word \in wordset : C23_IsSpelling(label, word)

C23_PositiveWords ==
    {<<"p", "o", "s", "i", "t", "i", "v", "e">>, <<"b", "u", "l", "l", "i", "s", "h">>, <<"l", "a", "b", "e", "l", "_", "2">>}

C23_NegativeWords ==
    {<<"n", "e", "g", "a", "t", "i", "v", "e">>, <<"b", "e", "a", "r", "i", "s", "h">>, <<"l", "a", "b", "e", "l", "_", "0">>}

C23_NeutralWords ==
    {<<"n", "e", "u", "t", "r", "a", "l">>, <<"l", "a", "b", "e", "l", "_", "1">>}

\* C23: normalize_label answers one of positive, negative, neutral for every
\* label; whatever the case of the letters, positive / bullish / label_2 give
\* positive, negative / bearish / label_0 give negative, neutral / label_1 give
\* neutral, every other label gives neutral; normalizing the answer again
\* gives the same answer.
C23_NormalizeLabel ==
    analysis # Pending
    => /\ analysis.label \in {POSITIVE, NEGATIVE, NEUTRAL}
       /\ C23_Spells(raw_in.label, C23_PositiveWords) => analysis.label = POSITIVE
       /\ C23_Spells(raw_in.label, C23_NegativeWords) => analysis.label = NEGATIVE
       /\ C23_Spells(raw_in.label, C23_NeutralWords) => analysis.label = NEUTRAL
       /\ ~C23_Spells(raw_in.label,
                      C23_PositiveWords \cup C23_NegativeWords \cup C23_NeutralWords)
          => analysis.label = NEUTRAL
       /\ label_again # Pending => label_again.label = analysis.label

\* BULLISH in capitals has been normalized to positive, and positive to itself
C23_Witness ==
    /\ raw_in.label = <<"B", "U", "L", "L", "I", "S", "H">>
    /\ analysis # Pending
    /\ analysis.label = POSITIVE
    /\ label_again = [label |-> POSITIVE]

\* the band of a score: above 0.8 high, above 0.6 and up to 0.8 medium, else low
C24_Band(score) ==
    IF score > 80000 THEN "high"
    ELSE IF score > 60000 /\ score <= 80000 THEN "medium"
    ELSE "low"

\* C24: in the SentimentResult delivered, the band is the band of the score
\* reported, and a warning is present exactly when that band is low; also
\* when the rounding to four decimals has moved the score onto a threshold.
C24_BandAndWarningFollowScore ==
    delivered # Pending
    => /\ delivered.confidence = C24_Band(delivered.score)
       /\ (delivered.warning # NoWarning) <=> (C24_Band(delivered.score) = "low")

\* C25: the statistics of zero items are total 0, the three counts 0, the two
\* averages 0 and the three percentages 0, delivered without an error; the
\* statistics of one or more items are delivered with the three counts adding
\* up to the total, which is the number of items.
C25_StatsOfItems ==
    stats_out # Pending
    => /\ stats_out.status_code = 200
       /\ stats_out.total_news = Len(items_in)
       /\ stats_out.positive_count + stats_out.negative_count + stats_out.neutral_count
             = stats_out.total_news
       /\ items_in = <<>>
          => /\ stats_out.total_news = 0
             /\ stats_out.positive_count = 0
             /\ stats_out.negative_count = 0
             /\ stats_out.neutral_count = 0
             /\ stats_out.avg_sentiment_score = 0
             /\ stats_out.avg_relevance_score = 0
             /\ stats_out.sentiment_distribution
                   = [positive |-> 0, negative |-> 0, neutral |-> 0]

\* the statistics of no item have been delivered
C25_Witness ==
    /\ items_in = <<>>
    /\ stats_out # Pending
    /\ stats_out.status_code = 200

\* ---------------------------------------------------- the route's claims
\* the failures the fetch reports itself: the ticker refused, or the provider
\* answering with an error
C26_Reported(failure) ==
    /\ failure.exc = "ValueError"
    /\ failure.msg \in {"empty", "format", "not_allowed", "API Error: HTTP", "API Error",
                         "Rate limit exceeded"}

C26_ExpectedStatus(failure) ==
    IF C26_Reported(failure) THEN 400
    ELSE IF failure.exc = "ConnectionError" THEN 503
    ELSE IF failure.exc = "TimeoutError" THEN 504
    ELSE 500

\* C26: a get_news call whose fetch failed answers 400 for a refused ticker
\* or an error the provider reported, 503 for a connection failure, 504 for a
\* timeout and 500 for every other failure of the fetch; never 200.
C26_FailureStatus ==
    \A p \in Threads :
        (npc[p] = "done" /\ fetched[p].exc \notin {"none", "pending"})
        => /\ response[p].status_code = C26_ExpectedStatus(fetched[p])
           /\ response[p].status_code # 200

C13_InitFailed(p) == \E i \in 1..Len(outcomes[p]) : outcomes[p][i] = "init_error"

\* C13: a get_news call during which the classifier failed to initialize does
\* not answer 200: it ends with the error.
C13_InitFailureAborts ==
    \A p \in Threads :
        (npc[p] = "done" /\ C13_InitFailed(p)) => response[p].status_code # 200

\* the items whose classification succeeded, in the order fetched
RECURSIVE C14_Classified(_, _)
C14_Classified(items, outs) ==
    IF items = <<>> \/ outs = <<>> THEN <<>>
    ELSE IF Head(outs) = "ok"
         THEN <<Head(items)>> \o C14_Classified(Tail(items), Tail(outs))
         ELSE C14_Classified(Tail(items), Tail(outs))

C9_CacheHitReported ==
    \A p \in Threads :
        (npc[p] = "done" /\ response[p].status_code = 200)
        => (response[p].cache_hit <=> fromCache[p])

\* C10: get_news never calls analyze_sentiment for an item that its fetch took
\* from _cache.
C10_NoClassifierOnHit == ~classifiedOnHit

\* ----------------------------------------------------- the cache's claims
AAPLKey == _get_cache_key(AAPL)

Quiet == \A p \in Threads : pc[p] \in {"idle", "done"}

\* only thread p has ever acted
SoleCaller(p) == \A q \in Threads \ {p} : pc[q] = "idle" /\ result[q] = NoResult

C1_HitStep ==
    \A p \in Threads :
        LET key == _get_cache_key(ticker[p])
        IN /\ ( /\ pc[p] = "valid_get" /\ pc'[p] # "valid_get"
                /\ key \in DOMAIN cache_timestamps
                /\ now - cache_timestamps[key] < CACHE_TTL )
              => (pc'[p] = "hit_read" /\ providerCalls' = providerCalls)
           /\ (pc[p] = "hit_read" /\ pc'[p] # "hit_read" /\ key \in DOMAIN cache)
              => ( /\ result'[p] = Returned(cache[key])
                   /\ providerCalls' = providerCalls
                   /\ cache' = cache /\ cache_timestamps' = cache_timestamps )

C1_OnceForOneCaller ==
    \A p \in Threads :
        ( /\ SoleCaller(p) /\ pc[p] = "done" /\ ~cleared
          /\ AAPLKey \in DOMAIN cache_timestamps
          /\ tsTag[AAPLKey] = 1
          /\ now - cache_timestamps[AAPLKey] < CACHE_TTL )
        => providerCalls = 1

\* C1: a fetch whose validity check reads a stamp younger than CACHE_TTL goes
\* on to return the list stored under the key without calling the provider;
\* and while the entry stored by a sole caller's first provider call is younger
\* than CACHE_TTL, however many calls that caller has finished since, the
\* provider has been called exactly once.
C1_FreshEntryServedWithoutProvider == [][C1_HitStep]_vars /\ []C1_OnceForOneCaller

\* a call has passed the validity check on an entry of age CACHE_TTL - 1,
\* stored by the only provider call so far
C1_Witness ==
    \E p \in Threads :
        /\ pc[p] = "hit_read" /\ providerCalls = 1 /\ ~cleared
        /\ AAPLKey \in DOMAIN cache /\ AAPLKey \in DOMAIN cache_timestamps
        /\ now - cache_timestamps[AAPLKey] = CACHE_TTL - 1
        /\ cache[AAPLKey] # <<>>

C2_ValidityStep ==
    \A p \in Threads :
        LET key == _get_cache_key(ticker[p])
        IN ( /\ pc[p] = "valid_get" /\ pc'[p] # "valid_get"
             /\ key \in DOMAIN cache_timestamps )
           => /\ (pc'[p] = "hit_read") <=> (now - cache_timestamps[key] < CACHE_TTL)
              /\ (now - cache_timestamps[key] >= CACHE_TTL) => pc'[p] = "request"
              /\ cache' = cache /\ cache_timestamps' = cache_timestamps

C2_MissCallsProvider ==
    \A p \in Threads :
        (pc[p] = "request" /\ pc'[p] # "request") => providerCalls' = providerCalls + 1

C2_OnlyStoreOverwrites ==
    /\ \A k \in DOMAIN cache :
          (k \notin DOMAIN cache' \/ cache'[k] # cache[k])
          => \/ \E p \in Threads : /\ pc[p] = "store_items" /\ pc'[p] = "store_stamp"
                                   /\ k \in DOMAIN cache' /\ cache'[k] = news_items[p]
             \/ \E p \in Threads : pc'[p] = "clear_stamps" /\ pc[p] # "clear_stamps"
    /\ \A k \in DOMAIN cache_timestamps :
          (k \notin DOMAIN cache_timestamps' \/ cache_timestamps'[k] # cache_timestamps[k])
          => \/ \E p \in Threads : /\ pc[p] = "store_stamp" /\ pc'[p] = "done"
                                   /\ result'[p].exc = "none"
                                   /\ k \in DOMAIN cache_timestamps'
                                   /\ cache_timestamps'[k] = now
             \/ \E p \in Threads : pc[p] = "clear_stamps" /\ pc'[p] = "idle"

\* C2: the validity check finds an entry live exactly when now - stamp <
\* CACHE_TTL; at age CACHE_TTL or more the call goes on to the provider; the
\* check leaves both maps as they are, and an entry changes only when a fetch
\* that succeeded writes it (or _clear_cache removes it).
C2_LiveExactlyBelowTTL ==
    [][C2_ValidityStep /\ C2_MissCallsProvider /\ C2_OnlyStoreOverwrites]_vars

\* a call has read a stamp of age exactly CACHE_TTL and is about to call the
\* provider, the expired entry still in both maps
C2_Witness ==
    \E p \in Threads :
        /\ pc[p] = "request" /\ seenTag[p] # 0
        /\ AAPLKey \in DOMAIN cache /\ AAPLKey \in DOMAIN cache_timestamps
        /\ now - cache_timestamps[AAPLKey] = CACHE_TTL

\* C4: a reader that has found an entry live reads an item list that is there
\* and was written by the same store as the stamp it read.
C4_NoTornRead ==
    \A p \in Threads :
        pc[p] = "hit_read"
        => /\ _get_cache_key(ticker[p]) \in DOMAIN cache
           /\ cacheTag[_get_cache_key(ticker[p])] = seenTag[p]

C11_KeysOfAllowedTickers ==
    /\ DOMAIN cache \subseteq {_get_cache_key(t) : t \in ALLOWED_TICKERS}
    /\ DOMAIN cache_timestamps \subseteq {_get_cache_key(t) : t \in ALLOWED_TICKERS}

C12_KindOf(outcome) ==
    IF outcome.exc \in {"none", "pending"} THEN "none"
    ELSE IF outcome.msg \in {"empty", "format", "not_allowed"} THEN "InvalidTicker"
    ELSE IF outcome.msg \in {"API Error: HTTP", "API Error"} THEN "ProviderError"
    ELSE IF outcome.msg = "Rate limit exceeded" THEN "RateLimited"
    ELSE IF outcome.msg = "connect" THEN "Unreachable"
    ELSE IF outcome.msg = "timed out" THEN "TimedOut"
    ELSE IF outcome.msg = "Text cannot be empty" THEN "EmptyInput"
    ELSE IF outcome.msg = "Model initialization failed" THEN "ClassifierInitError"
    ELSE IF outcome.msg = "inference" THEN "ClassifierInferenceError"
    ELSE "other"

C12_Outcomes == {result[p] : p \in Threads} \cup {ares[p] : p \in Threads}

\* C12: two failures of different kinds never reach their callers as the same
\* exception type.
C12_KindsDistinguishable ==
    \A o1, o2 \in C12_Outcomes :
        ( /\ C12_KindOf(o1) \notin {"none", "other"}
          /\ C12_KindOf(o2) \notin {"none", "other"}
          /\ C12_KindOf(o1) # C12_KindOf(o2) )
        => o1.exc # o2.exc

\* C5: without _clear_cache, no call fails on the cache itself, and once all
\* calls have finished the cache holds, for the ticker written, one entry with
\* the items of the last write to _cache.
C5_LastWriterWins ==
    ~cleared
    => /\ \A p \in Threads : result[p].exc # "KeyError"
       /\ (Quiet /\ AAPLKey \in DOMAIN lastPut)
          => /\ DOMAIN cache = {AAPLKey}
             /\ DOMAIN cache_timestamps = {AAPLKey}
             /\ cache[AAPLKey] = lastPut[AAPLKey]

\* two calls, one per thread, both missed the cold cache, both called the
\* provider, got different items and both returned
C5_Witness ==
    /\ ~cleared /\ now = 0 /\ started = 2 /\ providerCalls = 2
    /\ \E p, q \in Threads :
          /\ p # q
          /\ pc[p] = "done" /\ pc[q] = "done"
          /\ result[p].exc = "none" /\ result[q].exc = "none"
          /\ result[p].items # <<>> /\ result[q].items # <<>>
          /\ result[p].items # result[q].items
          /\ AAPLKey \in DOMAIN cache
          /\ cache[AAPLKey] = lastPut[AAPLKey]

\* ------------------------------------------------- the feed loop's claims
C15_Finished == pc[1] = "done" /\ providerCalls = 1

\* the entry's only defect is a publish timestamp that does not parse, and it
\* is about the ticker with enough relevance
C15_OnlyStampUnparseable(entry) ==
    /\ IsObject(entry)
    /\ "time_published" \in DOMAIN entry /\ entry.time_published = BadStamp
    /\ \E j \in 1..Len(entry.ticker_sentiment) :
           /\ IsObject(entry.ticker_sentiment[j])
           /\ entry.ticker_sentiment[j].ticker = AAPL
           /\ entry.ticker_sentiment[j].relevance_score # NotANumber
           /\ entry.ticker_sentiment[j].relevance_score >= min_in

\* C15: whatever the shape of a feed's entries, the fetch of a valid ticker
\* returns and does not raise, and an entry whose only defect is an
\* unparseable publish timestamp is among the returned items, with the time
\* of the call as its publish time.
C15_MalformedEntryNeverAborts ==
    C15_Finished
    => /\ result[1].exc = "none"
       /\ \A i \in 1..Len(feed_in) :
              C15_OnlyStampUnparseable(feed_in[i])
              => \E k \in 1..Len(result[1].items) :
                     /\ result[1].items[k].title = feed_in[i].title
                     /\ result[1].items[k].time_published = now

\* the entry is as the provider documents it: an object whose sub-records are
\* objects with numeric scores, and whose publish time is a string
C16_WellFormed(entry) ==
    /\ IsObject(entry)
    /\ Get(entry, "time_published", BadStamp) # NullStamp
    /\ \A j \in 1..Len(entry.ticker_sentiment) :
           /\ IsObject(entry.ticker_sentiment[j])
           /\ entry.ticker_sentiment[j].relevance_score # NotANumber
           /\ entry.ticker_sentiment[j].ticker_sentiment_score # NotANumber

\* the entry carries a sub-record of the uppercased request ticker whose
\* relevance is at least the threshold
C16_Qualifies(entry) ==
    \E j \in 1..Len(entry.ticker_sentiment) :
        /\ entry.ticker_sentiment[j].ticker = Upper(ticker_in)
        /\ entry.ticker_sentiment[j].relevance_score >= min_in

C16_Returned(entry) ==
    Cardinality({k \in 1..Len(result[1].items) : result[1].items[k].title = entry.title})

C16_InFeed(entry) == Cardinality({i \in 1..Len(feed_in) : feed_in[i] = entry})

C17_SortedDesc(items) ==
    \A i, j \in 1..Len(items) :
        i < j => items[i].time_published >= items[j].time_published

\* C17: the list a fetch returns and every list held by the cache are in
\* descending order of publish time.
C17_NewestFirst ==
    /\ \A p \in Threads : C17_SortedDesc(result[p].items)
    /\ \A key \in DOMAIN cache : C17_SortedDesc(cache[key])

\* a fetch whose feed had the older entry first returned and stored the newer
\* one first
C17_Witness ==
    /\ C15_Finished
    /\ Len(feed_in) = 2 /\ Len(result[1].items) = 2
    /\ result[1].items[1].title = feed_in[2].title
    /\ result[1].items[1].time_published > result[1].items[2].time_published
    /\ cache[_get_cache_key(ticker_in)] = result[1].items

\* ------------------------------------------------ the cache's replacement
\* the step in which a call that asked the provider returns a list
C18_FetchSucceeds(p) ==
    /\ pc[p] \in {"request", "store_stamp"}
    /\ pc'[p] = "done"
    /\ result'[p].exc = "none"

\* C18: the cache holds at most one entry per ticker, and when a call that
\* asked the provider returns a list, of however many items, the entry of its
\* ticker is that list, stamped with the time of the store.
C18_SuccessfulFetchReplacesEntry ==
    /\ [](\A k1, k2 \in DOMAIN cache :
             (\E t \in TickerInputs : k1 = _get_cache_key(t) /\ k2 = _get_cache_key(t))
             => k1 = k2)
    /\ [][\A p \in Threads :
             C18_FetchSucceeds(p)
             => LET key == _get_cache_key(ticker[p])
                IN /\ key \in DOMAIN cache' /\ key \in DOMAIN cache_timestamps'
                   /\ cache'[key] = result'[p].items
                   /\ cache_timestamps'[key] = now']_vars

\* ------------------------------------------------- validate_ticker's claim
\* AAPL, each letter in either case
C19_SpellsAAPL(t) ==
    /\ Len(t) = 4
    /\ t[1] \in {"A", "a"} /\ t[2] \in {"A", "a"}
    /\ t[3] \in {"P", "p"} /\ t[4] \in {"L", "l"}

\* the uppercased ticker matches ^[A-Z]{1,5}$: one to five letters, and
\* nothing else but a newline at the very end
C19_MatchesPattern(t) ==
    \E n \in 1..5 :
        /\ Len(t) = n \/ (Len(t) = n + 1 /\ t[n + 1] = "\n")
        /\ \A i \in 1..n : t[i] \in {"A", "a", "P", "p", "L", "l"}

\* C19: validate_ticker succeeds exactly for AAPL in any letter case; every
\* other ticker fails with ValueError, and the error is that of the first rule
\* that fails, in the order non-empty, pattern, allow-list.
C19_RulesInOrder ==
    validated # NotValidated
    => /\ validated.exc = (IF C19_SpellsAAPL(ticker_in) THEN "none" ELSE "ValueError")
       /\ validated.exc = "ValueError"
          => validated.msg = (IF ticker_in = <<>> THEN "empty"
                              ELSE IF ~C19_MatchesPattern(ticker_in) THEN "format"
                              ELSE "not_allowed")

\* AAPL in mixed case was validated
C19_Witness ==
    /\ validated.exc = "none"
    /\ ticker_in # AAPL
    /\ Upper(ticker_in) = AAPL

\* the letters of the request ticker in upper case
C27_Uppercase(t) ==
    [i \in 1..Len(t) |->
        IF \E k \in 1..Len(LowerCaseChars) : LowerCaseChars[k] = t[i]
        THEN UpperCaseChars[CHOOSE k \in 1..Len(LowerCaseChars) : LowerCaseChars[k] = t[i]]
        ELSE t[i]]

C27_WithinModel(item) ==
    /\ item.relevance_score >= 0 /\ item.relevance_score <= 100
    /\ item.sentiment_score >= -100 /\ item.sentiment_score <= 100
    /\ item.ticker = C27_Uppercase(ticker_in)

\* C27: every item that fetch_financial_news has returned or that _cache
\* holds has its relevance_score within [0, 1], its sentiment_score within
\* [-1, 1] and the request ticker in upper case as its ticker, whatever the
\* feed carried.
C27_ItemsWithinModel ==
    /\ \A p \in Threads :
          result[p].exc = "none"
          => \A i \in 1..Len(result[p].items) : C27_WithinModel(result[p].items[i])
    /\ \A key \in DOMAIN cache :
          \A i \in 1..Len(cache[key]) : C27_WithinModel(cache[key][i])

\* the fetch of thread 1 has just failed with the provider's error
C28_ProviderError ==
    /\ pc'[1] = "done"
    /\ result'[1].exc = "ValueError"
    /\ result'[1].msg \in {"API Error: HTTP", "API Error"}

C28_RateLimited ==
    /\ pc'[1] = "done"
    /\ result'[1] = Raised("ValueError", "Rate limit exceeded")

\* the feed has been gone through: the items are about to be stored, or the
\* empty list has been returned
C28_FeedProcessed ==
    \/ pc'[1] = "store_items"
    \/ pc'[1] = "done" /\ result'[1].exc = "none"

\* the outcome of the step that receives resp, where rejected tells which
\* statuses are refused for themselves
C28_Order(resp, rejected) ==
    /\ rejected => C28_ProviderError
    /\ (~rejected /\ resp.error_message) => C28_ProviderError
    /\ (~rejected /\ ~resp.error_message /\ resp.note) => C28_RateLimited
    /\ C28_FeedProcessed => (~rejected /\ ~resp.error_message /\ ~resp.note)
    /\ (~rejected /\ resp.body = "object" /\ ~resp.error_message /\ ~resp.note)
       => C28_FeedProcessed

C28_Answered == {resp \in Responses \cup FailureResponses : resp.transport = "ok"}

\* C28 as stated: a status outside 200..299 fails with the provider's error
\* whatever the body; otherwise the error marker fails with the provider's
\* error, with or without the rate-limit marker; otherwise the rate-limit
\* marker fails as rate-limited, with or without a feed; only otherwise is
\* the feed processed.
C28_OrderNon2xx ==
    [][\A resp \in C28_Answered :
          Request(1, resp)
          => C28_Order(resp, resp.status_code < 200 \/ resp.status_code > 299)]_vars

\* C28, amended: the same order, with every status other than 200 refused
\* for itself.
C28_OrderNot200 ==
    [][\A resp \in C28_Answered :
          Request(1, resp) => C28_Order(resp, resp.status_code # 200)]_vars

\* a fetch has been refused as rate-limited
C28_Witness ==
    /\ pc[1] = "done"
    /\ result[1] = Raised("ValueError", "Rate limit exceeded")
    /\ providerCalls >= 1

\* the ticker is not AAPL in any mix of cases
C29_Invalid(t) == C27_Uppercase(t) # AAPL

C29_ValidationMessages == {"empty", "format", "not_allowed"}

\* the cache, the provider and the classifier are as they were
C29_NothingTouched ==
    /\ UNCHANGED storeVars
    /\ providerCalls' = providerCalls
    /\ UNCHANGED <<mstarted, constructions, classifyRequested, model_pipeline>>
    /\ pc'[1] \notin {"valid_get", "hit", "request", "store_items", "store_stamp"}

\* C29: a get_news call with an invalid ticker has failed with validate_ticker's
\* ValueError as soon as fetch_financial_news is entered, and is answered 400,
\* without the cache being read or changed and without the provider or the
\* classifier being invoked.
C29_ValidationFirst ==
    [][/\ \A t \in TickerInputs :
             (GetNews(1, t) /\ C29_Invalid(t))
             => /\ pc'[1] = "done"
                /\ result'[1].exc = "ValueError"
                /\ result'[1].msg \in C29_ValidationMessages
                /\ C29_NothingTouched
       /\ (FetchReturned(1) /\ result[1].msg \in C29_ValidationMessages)
          => /\ npc'[1] = "done"
             /\ response'[1].status_code = 400
             /\ response'[1].items = <<>>
             /\ outcomes'[1] = <<>>
             /\ C29_NothingTouched]_vars

\* a call with a ticker outside the allow-list has been answered 400 while
\* the cache held the entry an earlier call had stored
C29_Witness ==
    /\ npc[1] = "done"
    /\ response[1].status_code = 400
    /\ fetched[1] = Raised("ValueError", "not_allowed")
    /\ providerCalls = 1
    /\ DOMAIN cache # {}

\* the responses on which the fetch fails with the provider's error, as
\* rate-limited, as unreachable or as timed out
C30_Failing ==
    {resp \in Responses \cup FailureResponses :
        \/ resp.transport # "ok"
        \/ resp.status_code # 200
        \/ resp.body = "object" /\ (resp.error_message \/ resp.note)}

C30_Expired(stamps, clock, key) == clock - stamps[key] >= CACHE_TTL

\* C30: the step in which a fetch receives a failing response is the call's
\* only request to the provider and ends the call with the failure; _cache and
\* _cache_timestamps are as before, and an entry that was expired is still
\* expired. No step invokes the provider except from a call that is waiting
\* for its response.
C30_FailedFetchLeavesCache ==
    [][/\ \A resp \in C30_Failing :
             Request(1, resp)
             => /\ pc'[1] = "done"
                /\ result'[1].exc \in {"ValueError", "ConnectionError", "TimeoutError"}
                /\ providerCalls' = providerCalls + 1
                /\ cache' = cache
                /\ cache_timestamps' = cache_timestamps
                /\ \A key \in DOMAIN cache_timestamps :
                      C30_Expired(cache_timestamps, now, key)
                      => /\ key \in DOMAIN cache_timestamps'
                         /\ C30_Expired(cache_timestamps', now', key)
       /\ providerCalls' # providerCalls
          => (pc[1] = "request" /\ pc'[1] # "request" /\ providerCalls' = providerCalls + 1)
       /\ providerCalls' <= started']_vars

\* a fetch has timed out while the cache held an expired entry, after one
\* request of its own
C30_Witness ==
    /\ pc[1] = "done"
    /\ result[1].exc = "TimeoutError"
    /\ providerCalls = 2
    /\ \E key \in DOMAIN cache_timestamps : C30_Expired(cache_timestamps, now, key)

====
